---- MODULE Spec2Model ----
(***************************************************************************)
(* Device Conversational Audio Session of soven-server                     *)
(* (src/audio_websocket.py, class DeviceAudioSession).                     *)
(*                                                                         *)
(* Strings are sequences of one-character strings, byte strings are        *)
(* sequences of integers 0..255.  Python's None is the one-element         *)
(* sequence None for string-valued fields.                                 *)
(***************************************************************************)
EXTENDS Integers, Sequences, FiniteSets, TLC

VARIABLES
    pc,                 \* position of the session coroutine
    device_id,          \* self.device_id
    ai_name,            \* self.ai_name
    dna_parameters,     \* self.dna_parameters
    voice_config,       \* self.voice_config
    narrative_context,  \* self.narrative_context
    audio_chunks,       \* self.audio_chunks
    recording,          \* self.recording
    inbox,              \* frames sent by the device, not yet received
    peer_gone,          \* the device has closed the connection
    client_state,       \* starlette WebSocket.client_state
    n_device_msgs,      \* frames the device has sent so far
    audio_np,           \* local audio_np of process_complete_audio
    transcript,         \* local transcript
    command,            \* local command
    ai_response,        \* local ai_response
    audio_bytes,        \* local audio_bytes
    stream_i,           \* loop variable i of stream_audio_to_device
    fin_sent,           \* outbound messages of the current / last handler
    fin_calls,          \* adapter calls of the current / last finalization
    fin_status,         \* how far the current / last handler has come
    fin_error,          \* what was raised in the current / last finalization
    fin_gate,           \* result of validate_wake_word, "none" before it ran
    fin_outcome,        \* how the LLM call and the synthesis ended
    fn_input,           \* casing and pieces the transcript was assembled from
    other_pending,      \* a frame of another open session waits to be received
    tts_ljspeech,       \* global tts_ljspeech of main.py
    tts_jenny,          \* global tts_jenny of main.py
    threads,            \* where each request thread is in get_tts_model
    n_loaded,           \* TTS(...) constructions so far, by model
    soven_api_key,      \* os.getenv("SOVEN_API_KEY"), "None" when not set
    http_pc,            \* how far the HTTP request has come
    request,            \* the HTTP request being served
    response            \* the response to it

vars == <<pc, device_id, ai_name, dna_parameters, voice_config,
          narrative_context, audio_chunks, recording, inbox, peer_gone,
          client_state, n_device_msgs, audio_np, transcript, command,
          ai_response, audio_bytes, stream_i, fin_sent, fin_calls,
          fin_status, fin_error, fin_gate, fin_outcome, fn_input,
          other_pending, tts_ljspeech, tts_jenny, threads, n_loaded,
          soven_api_key, http_pc, request, response>>

-----------------------------------------------------------------------------
(* Bounds of the model *)

MaxInbox == 1
MaxDeviceMsgs == 3
MaxReplyLen == 2500
MaxParts == 3

-----------------------------------------------------------------------------
(* Python values *)

None == <<"None">>

NoneDict == [is_none |-> TRUE, items |-> {}]

Dict(items) == [is_none |-> FALSE, items |-> items]

DictGet(d, key, default) ==
    IF \E kv \in d.items : kv[1] = key
    THEN (CHOOSE kv \in d.items : kv[1] = key)[2]
    ELSE default

-----------------------------------------------------------------------------
(* str methods used by the wake-word gate *)

UpperAZ == <<"A", "B", "C", "D", "E", "F", "G", "H", "I", "J", "K", "L", "M",
             "N", "O", "P", "Q", "R", "S", "T", "U", "V", "W", "X", "Y", "Z">>

LowerAZ == <<"a", "b", "c", "d", "e", "f", "g", "h", "i", "j", "k", "l", "m",
             "n", "o", "p", "q", "r", "s", "t", "u", "v", "w", "x", "y", "z">>

\* U+0131 LATIN SMALL LETTER DOTLESS I: str.upper maps it to "I",
\* str.lower leaves it alone and maps "I" to "i".
DotlessI == "dotless_i"

LowerChar(c) ==
    IF \E k \in 1..26 : UpperAZ[k] = c
    THEN LowerAZ[CHOOSE k \in 1..26 : UpperAZ[k] = c]
    ELSE c

UpperChar(c) ==
    IF c = DotlessI THEN "I"
    ELSE IF \E k \in 1..26 : LowerAZ[k] = c
         THEN UpperAZ[CHOOSE k \in 1..26 : LowerAZ[k] = c]
         ELSE c

\* str.lower()
lower(s) == [k \in 1..Len(s) |-> LowerChar(s[k])]

\* str.upper(), for the characters of the model (none changes length)
upper(s) == [k \in 1..Len(s) |-> UpperChar(s[k])]

IsSpace(c) == c \in {" ", "\t", "\n"}

\* str.strip()
strip(s) ==
    CHOOSE r \in
        { IF \A k \in 1..Len(v) : IsSpace(v[k]) THEN <<>>
          ELSE LET first == CHOOSE k \in 1..Len(v) :
                                /\ ~IsSpace(v[k])
                                /\ \A j \in 1..(k - 1) : IsSpace(v[j])
                   last  == CHOOSE k \in 1..Len(v) :
                                /\ ~IsSpace(v[k])
                                /\ \A j \in (k + 1)..Len(v) : IsSpace(v[j])
               IN SubSeq(v, first, last) : v \in {s} } : TRUE

StartsWith(s, p) == Len(p) <= Len(s) /\ SubSeq(s, 1, Len(p)) = p

\* p in s
Contains(s, p) ==
    \E k \in 0..(Len(s) - Len(p)) : SubSeq(s, k + 1, k + Len(p)) = p

\* s.replace(p, "", 1): the first occurrence only
RECURSIVE replace_first(_, _)
replace_first(s, p) ==
    IF Len(p) = 0 \/ Len(s) < Len(p) THEN s
    ELSE IF StartsWith(s, p)
         THEN SubSeq(s, Len(p) + 1, Len(s))
         ELSE <<Head(s)>> \o replace_first(Tail(s), p)

\* a removal that scans again until no occurrence is left
RECURSIVE replace_rescan(_, _)
replace_rescan(s, p) ==
    IF Len(p) = 0 \/ Len(s) < Len(p) THEN s
    ELSE IF StartsWith(s, p)
         THEN replace_rescan(SubSeq(s, Len(p) + 1, Len(s)), p)
         ELSE LET r == <<Head(s)>> \o replace_rescan(Tail(s), p)
              IN IF StartsWith(r, p) THEN replace_rescan(r, p) ELSE r

\* s.replace(p, ""): every non-overlapping occurrence, left to right
\* (v is the value of s, computed once for each call)
RECURSIVE replace(_, _)
replace(s, p) ==
    CHOOSE r \in
        { IF Len(p) = 0 \/ Len(v) < Len(p) THEN v
          ELSE IF StartsWith(v, p)
               THEN replace(SubSeq(v, Len(p) + 1, Len(v)), p)
               ELSE <<Head(v)>> \o replace(Tail(v), p) : v \in {s} } : TRUE

Hey == <<"h", "e", "y", " ">>
Hi == <<"h", "i", " ">>
Hello == <<"h", "e", "l", "l", "o", " ">>

Filler == <<"y", "e", "s", "?">>

\* wake_words of validate_wake_word, in list order
wake_words(name) ==
    <<lower(name), Hey \o lower(name), Hi \o lower(name), Hello \o lower(name)>>

\* a gate that compares the transcript as transcribed, not lower-cased
validate_wake_word_cased(name, t) ==
    \E k \in 1..4 : Contains(t, wake_words(name)[k])

\* a gate that a bare greeting opens as well
validate_wake_word_greeting(name, t) ==
    \/ \E k \in 1..4 : Contains(lower(t), wake_words(name)[k])
    \/ \E g \in {Hey, Hi, Hello} : Contains(lower(t), g)

\* a gate that takes the name only as a word of its own
validate_wake_word_whole_word(name, t) ==
    LET lt == lower(t)
        n == lower(name)
    IN \E k \in 0..(Len(lt) - Len(n)) :
          /\ SubSeq(lt, k + 1, k + Len(n)) = n
          /\ k = 0 \/ IsSpace(lt[k])
          /\ k + Len(n) = Len(lt) \/ IsSpace(lt[k + Len(n) + 1])

\* validate_wake_word; the caller guarantees name # None
validate_wake_word(name, t) ==
    \E k \in 1..4 : Contains(lower(t), wake_words(name)[k])

\* patterns of extract_command, in list order
patterns(name) ==
    <<Hey \o lower(name), Hi \o lower(name), Hello \o lower(name), lower(name)>>

\* the loop of extract_command: command after patterns k..4 were removed
RECURSIVE remove_patterns(_, _, _)
remove_patterns(cmd, name, k) ==
    IF k > 4 THEN cmd
    ELSE remove_patterns(strip(replace(cmd, patterns(name)[k])), name, k + 1)

MinCommandLen == 3

\* a floor that only catches the empty command
extract_command_empty_only(name, t) ==
    LET cmd == remove_patterns(lower(t), name, 1)
    IN IF Len(cmd) = 0 THEN Filler ELSE cmd

extract_command(name, t) ==
    LET cmd == remove_patterns(lower(t), name, 1)
    IN IF Len(cmd) < MinCommandLen THEN Filler ELSE cmd

-----------------------------------------------------------------------------
(* The database collaborator: devices LEFT JOIN entity_dna LEFT JOIN         *)
(* entity_origins, one row per registered device.                            *)

DeviceIds == {"dev_frank", "dev_noname", "dev_unknown"}

Frank == <<"F", "r", "a", "n", "k">>

Assistant == <<"A", "s", "s", "i", "s", "t", "a", "n", "t">>

Narrative == <<"b", "o", "r", "n", " ", "i", "n", " ", "a", " ", "l", "a", "b">>

\* the rows of the query of load_device_profile; devices.ai_name is nullable
\* (complete_onboarding stores data.get('ai_name')), and a device without
\* entity_dna / entity_origins rows yields NULL columns
DbRows ==
    [dev_frank  |-> [ai_name |-> Frank, anxiety_threshold |-> "0.3",
                     service_orientation |-> "0.8", resilience |-> "0.6",
                     narrative_context |-> Narrative],
     dev_noname |-> [ai_name |-> None, anxiety_threshold |-> "None",
                     service_orientation |-> "None", resilience |-> "None",
                     narrative_context |-> None]]

HasRow(d) == d \in DOMAIN DbRows

DefaultVoice ==
    Dict({<<"type", "multi_speaker">>,
          <<"model", "tts_models/en/vctk/vits">>,
          <<"speaker", "p297">>})

\* a load whose default branch sets no voice
load_device_profile_no_voice(d) ==
    IF HasRow(d)
    THEN LET row == DbRows[d]
         IN [ai_name |-> row.ai_name,
             narrative_context |-> row.narrative_context,
             dna_parameters |->
                 Dict({<<"anxiety_threshold", row.anxiety_threshold>>,
                       <<"service_orientation", row.service_orientation>>,
                       <<"resilience", row.resilience>>}),
             voice_config |-> Dict({})]
    ELSE [ai_name |-> Assistant,
          narrative_context |-> None,
          dna_parameters |-> NoneDict,
          voice_config |-> Dict({})]

\* the assignments of load_device_profile for device d
load_device_profile(d) ==
    IF HasRow(d)
    THEN LET row == DbRows[d]
         IN [ai_name |-> row.ai_name,
             narrative_context |-> row.narrative_context,
             dna_parameters |->
                 Dict({<<"anxiety_threshold", row.anxiety_threshold>>,
                       <<"service_orientation", row.service_orientation>>,
                       <<"resilience", row.resilience>>}),
             voice_config |-> Dict({})]
    ELSE [ai_name |-> Assistant,
          narrative_context |-> None,
          dna_parameters |-> NoneDict,
          voice_config |-> DefaultVoice]

-----------------------------------------------------------------------------
(* Frames and external results *)

Fragments == {<<>>, <<1>>, <<2, 3>>}

BytesFrame(b) == [kind |-> "bytes", data |-> b, device_id |-> "-"]

TextFrame(k) == [kind |-> k, data |-> <<>>, device_id |-> "-"]

\* device_hello with device_id d; "absent" = no device_id key, "None" = null
HelloFrame(d) == [kind |-> "device_hello", data |-> <<>>, device_id |-> d]

DisconnectMsg == TextFrame("disconnect")

DeviceFrames ==
    {BytesFrame(b) : b \in Fragments}
    \cup {TextFrame(k) : k \in {"AUDIO_END", "json_other", "bad_json", "text_other"}}
    \cup {HelloFrame(d) : d \in DeviceIds \cup {"absent", "None"}}

\* transcripts the STT engine returns (already stripped by transcribe_audio);
\* the empty transcript is also what a failed transcription returns
T_empty == <<>>

T_short == <<"o", "k">>

T_weather == <<"w", "h", "a", "t", "'", "s", " ", "t", "h", "e", " ",
               "w", "e", "a", "t", "h", "e", "r">>

T_brew == <<"h", "e", "y", " ", "f", "r", "a", "n", "k", " ",
            "s", "t", "a", "r", "t", " ", "b", "r", "e", "w", "i", "n", "g">>

T_bare == <<"A", "S", "S", "I", "S", "T", "A", "N", "T">>

SttResults == {T_empty, T_short, T_weather, T_brew, T_bare}

NoText == "<unset>"

ReplyOk == "Sure, brewing now."

FallbackStatus == "Sorry, I'm having trouble thinking right now."

FallbackError == "My brain's offline. Try again?"

\* what generate_response returns: the model's reply, or one of its fallbacks
LlmResults == {ReplyOk, FallbackStatus, FallbackError}

\* how the request to the chat endpoint can end: a 200 body with a reply,
\* another status, an exception of requests.post (timeout, connection
\* error), a 200 body that is not JSON or has no message.content
LlmOutcomes == {"ok", "status", "timeout", "malformed"}

\* a generate_response with one fallback for every failure
generate_response_one_fallback(o) ==
    CASE o = "ok" -> ReplyOk
      [] OTHER -> FallbackError

\* generate_response, by the way the request ended
generate_response(o) ==
    CASE o = "ok" -> ReplyOk
      [] o = "status" -> FallbackStatus
      [] OTHER -> FallbackError

chunk_size == 1024

\* a PCM byte string of n bytes whose content tells the positions apart
Audio(n) == [k \in 1..n |-> (k - 1) % 251]

ReplyLens == {0, 2, chunk_size, chunk_size + 2, MaxReplyLen}

\* what generate_tts returns; the empty byte string is also its failure value
TtsResults == {Audio(n) : n \in ReplyLens}

TtsOutcomes == {"ok", "fail"}

\* a generate_tts that returns what was synthesized before the failure
generate_tts_partial(o, synthesized) == synthesized

\* generate_tts, by the way the synthesis ended
generate_tts(o, synthesized) == IF o = "ok" THEN synthesized ELSE <<>>

\* b''.join(self.audio_chunks)
RECURSIVE join(_)
join(chunks) == IF chunks = <<>> THEN <<>> ELSE Head(chunks) \o join(Tail(chunks))

\* np.frombuffer(data, dtype=np.int16) for a byte string of even length
frombuffer(data) ==
    [k \in 1..(Len(data) \div 2) |->
        LET u == data[2 * k - 1] + 256 * data[2 * k]
        IN IF u >= 32768 THEN u - 65536 ELSE u]

\* np.frombuffer raises ValueError unless the size is a multiple of 2
frombuffer_raises(data) == Len(data) % 2 # 0

MsgNoWakeWord == [type |-> "no_wake_word"]

MsgAudioEnd == [type |-> "audio_end"]

MsgBytes(b) == [type |-> "bytes", data |-> b]

\* an announcement that leaves sleep disabled
MsgPersonality_awake(name) ==
    [type |-> "personality_loaded", ai_name |-> name, sleep_enabled |-> FALSE]

MsgPersonality(name) ==
    [type |-> "personality_loaded", ai_name |-> name, sleep_enabled |-> TRUE]

\* outcomes of websocket.send_*: a send to a device that has gone either
\* raises or is dropped by the server without an error
SendOutcomes == IF peer_gone THEN {"ok", "raise"} ELSE {"ok"}

-----------------------------------------------------------------------------
(* The session: handle_session and the handlers it calls *)

NoOutcome == [llm |-> "none", tts |-> "none"]

Threads == {"t1", "t2"}

\* the globals tts_ljspeech and tts_jenny are None, no request is running and
\* no other session has a frame waiting
NoRequest == [path |-> <<>>, x_api_key |-> "None", text |-> <<>>,
              description |-> <<>>]

NoResponse == [status |-> 0, handler |-> "none", success |-> "-",
               ai_response |-> <<>>, commands |-> <<>>]

\* no HTTP request is being served
HttpIdle ==
    /\ http_pc = "idle"
    /\ request = NoRequest
    /\ response = NoResponse

ProcessIdle ==
    /\ other_pending = FALSE
    /\ tts_ljspeech = "None"
    /\ tts_jenny = "None"
    /\ threads = [t \in Threads |-> [pc |-> "idle", model_name |-> "-"]]
    /\ n_loaded = [ljspeech |-> 0, jenny |-> 0]
    /\ soven_api_key = "secret"
    /\ HttpIdle

Init ==
    /\ pc = "accept"
    /\ device_id \in DeviceIds
    /\ ai_name = None
    /\ dna_parameters = NoneDict
    /\ voice_config = NoneDict
    /\ narrative_context = None
    /\ audio_chunks = <<>>
    /\ recording = FALSE
    /\ inbox = <<>>
    /\ peer_gone = FALSE
    /\ client_state = "CONNECTING"
    /\ n_device_msgs = 0
    /\ audio_np = <<>>
    /\ transcript = None
    /\ command = None
    /\ ai_response = NoText
    /\ audio_bytes = <<>>
    /\ stream_i = 0
    /\ fin_sent = <<>>
    /\ fin_calls = <<>>
    /\ fin_status = "idle"
    /\ fin_error = "none"
    /\ fin_gate = "none"
    /\ fin_outcome = NoOutcome
    /\ fn_input = [casing |-> "asis", parts |-> <<>>]
    /\ ProcessIdle

http_vars == <<soven_api_key, http_pc, request, response>>

process_vars == <<other_pending, tts_ljspeech, tts_jenny, threads, n_loaded,
                  http_vars>>

profile_vars == <<ai_name, dna_parameters, voice_config, narrative_context>>

local_vars == <<audio_np, transcript, command, ai_response, audio_bytes, stream_i>>

fin_vars == <<fin_sent, fin_calls, fin_status, fin_error, fin_gate, fin_outcome>>

device_vars == <<inbox, peer_gone, n_device_msgs>>

\* a handler starts with fresh locals and a fresh record of what it did
FreshLocals ==
    /\ audio_np' = <<>>
    /\ transcript' = None
    /\ command' = None
    /\ ai_response' = NoText
    /\ audio_bytes' = <<>>
    /\ stream_i' = 0

FreshHandler ==
    /\ FreshLocals
    /\ fin_sent' = <<>>
    /\ fin_calls' = <<>>
    /\ fin_status' = "idle"
    /\ fin_error' = "none"
    /\ fin_gate' = "none"
    /\ fin_outcome' = NoOutcome

\* a load that assigns the narrative context only when the record has one
SetProfile_keeps_narrative(p) ==
    /\ ai_name' = p.ai_name
    /\ narrative_context' = IF p.narrative_context = None
                            THEN narrative_context ELSE p.narrative_context
    /\ dna_parameters' = p.dna_parameters
    /\ voice_config' = p.voice_config

SetProfile(p) ==
    /\ ai_name' = p.ai_name
    /\ narrative_context' = p.narrative_context
    /\ dna_parameters' = p.dna_parameters
    /\ voice_config' = p.voice_config

\* the device sends a frame
DeviceSend ==
    /\ pc \notin {"accept", "closed"}
    /\ ~peer_gone
    /\ Len(inbox) < MaxInbox
    /\ n_device_msgs < MaxDeviceMsgs
    /\ \E m \in DeviceFrames : inbox' = Append(inbox, m)
    /\ n_device_msgs' = n_device_msgs + 1
    /\ UNCHANGED <<pc, device_id, profile_vars, audio_chunks, recording,
                   peer_gone, client_state, local_vars, fin_vars,
                   fn_input, process_vars>>

\* the device closes the connection
DeviceDisconnect ==
    /\ pc \notin {"accept", "closed"}
    /\ ~peer_gone
    /\ peer_gone' = TRUE
    /\ inbox' = Append(inbox, DisconnectMsg)
    /\ UNCHANGED <<pc, device_id, profile_vars, audio_chunks, recording,
                   client_state, n_device_msgs, local_vars, fin_vars,
                   fn_input, process_vars>>

\* handle_session up to the message loop: accept, load profile, announce it
Accept ==
    /\ pc = "accept"
    /\ \E db_ok \in BOOLEAN :
          IF db_ok
          THEN /\ SetProfile(load_device_profile(device_id))
               /\ fin_sent' = <<MsgPersonality(load_device_profile(device_id).ai_name)>>
               /\ pc' = "listening"
               /\ fin_error' = "none"
          ELSE /\ UNCHANGED <<profile_vars, fin_sent>>
               /\ pc' = "closed"
               /\ fin_error' = "db"
    /\ client_state' = "CONNECTED"
    /\ UNCHANGED <<device_id, audio_chunks, recording, device_vars, local_vars,
                   fin_calls, fin_status, fin_gate, fin_outcome,
                   fn_input, process_vars>>

\* a receive that returns the newest frame of the queue
CanReceive_newest_first(kinds) ==
    /\ pc = "listening"
    /\ client_state = "CONNECTED"
    /\ inbox # <<>>
    /\ inbox[Len(inbox)].kind \in kinds
    /\ inbox' = SubSeq(inbox, 1, Len(inbox) - 1)

\* a loop that receives the next frame while a finalization is running
CanReceive_while_finalizing(kinds) ==
    /\ pc \notin {"accept", "closed"}
    /\ client_state = "CONNECTED"
    /\ inbox # <<>>
    /\ Head(inbox).kind \in kinds
    /\ inbox' = Tail(inbox)

\* the head of the inbox is what websocket.receive() returns next
CanReceive(kinds) ==
    /\ pc = "listening"
    /\ client_state = "CONNECTED"
    /\ inbox # <<>>
    /\ Head(inbox).kind \in kinds
    /\ inbox' = Tail(inbox)

\* an accumulation that puts the newest fragment first
handle_audio_chunk_prepend(chunk) ==
    /\ audio_chunks' = <<chunk>> \o audio_chunks
    /\ recording' = TRUE

\* an accumulation that takes a fragment without a byte for silence
handle_audio_chunk_voiced(chunk) ==
    /\ audio_chunks' = Append(audio_chunks, chunk)
    /\ recording' = (recording \/ chunk # <<>>)

\* handle_audio_chunk
handle_audio_chunk(chunk) ==
    /\ audio_chunks' = Append(audio_chunks, chunk)
    /\ recording' = TRUE

ReceiveBytes ==
    /\ CanReceive({"bytes"})
    /\ handle_audio_chunk(Head(inbox).data)
    /\ FreshHandler
    /\ UNCHANGED <<pc, device_id, profile_vars, peer_gone, client_state,
                   n_device_msgs, fn_input, process_vars>>

\* a device_hello that sets the identity and keeps the loaded profile
ReceiveHello_keeps_profile ==
    /\ CanReceive({"device_hello"})
    /\ LET d == IF Head(inbox).device_id = "absent" THEN device_id
                ELSE Head(inbox).device_id
       IN /\ device_id' = d
          /\ \E db_ok \in BOOLEAN :
                IF db_ok
                THEN /\ UNCHANGED profile_vars
                     /\ pc' = "listening"
                     /\ fin_error' = "none"
                ELSE /\ UNCHANGED profile_vars
                     /\ pc' = "closed"
                     /\ fin_error' = "db"
    /\ FreshLocals
    /\ fin_sent' = <<>>
    /\ fin_calls' = <<>>
    /\ fin_status' = "idle"
    /\ fin_gate' = "none"
    /\ fin_outcome' = NoOutcome
    /\ UNCHANGED <<audio_chunks, recording, peer_gone, client_state,
                   n_device_msgs, fn_input, process_vars>>

\* a device_hello that starts a new utterance
ReceiveHello_resets_utterance ==
    /\ CanReceive({"device_hello"})
    /\ LET d == IF Head(inbox).device_id = "absent" THEN device_id
                ELSE Head(inbox).device_id
       IN /\ device_id' = d
          /\ \E db_ok \in BOOLEAN :
                IF db_ok
                THEN /\ SetProfile(load_device_profile(d))
                     /\ pc' = "listening"
                     /\ fin_error' = "none"
                ELSE /\ UNCHANGED profile_vars
                     /\ pc' = "closed"
                     /\ fin_error' = "db"
    /\ FreshLocals
    /\ fin_sent' = <<>>
    /\ fin_calls' = <<>>
    /\ fin_status' = "idle"
    /\ fin_gate' = "none"
    /\ fin_outcome' = NoOutcome
    /\ audio_chunks' = <<>>
    /\ recording' = FALSE
    /\ UNCHANGED <<peer_gone, client_state, n_device_msgs, fn_input,
                   process_vars>>

\* handle_command for device_hello
ReceiveHello ==
    /\ CanReceive({"device_hello"})
    /\ LET d == IF Head(inbox).device_id = "absent" THEN device_id
                ELSE Head(inbox).device_id
       IN /\ device_id' = d
          /\ \E db_ok \in BOOLEAN :
                IF db_ok
                THEN /\ SetProfile(load_device_profile(d))
                     /\ pc' = "listening"
                     /\ fin_error' = "none"
                ELSE /\ UNCHANGED profile_vars
                     /\ pc' = "closed"
                     /\ fin_error' = "db"
    /\ FreshLocals
    /\ fin_sent' = <<>>
    /\ fin_calls' = <<>>
    /\ fin_status' = "idle"
    /\ fin_gate' = "none"
    /\ fin_outcome' = NoOutcome
    /\ UNCHANGED <<audio_chunks, recording, peer_gone, client_state,
                   n_device_msgs, fn_input, process_vars>>

\* a handler that starts a new utterance at every frame it does not know
ReceiveIgnored_clears_buffer ==
    /\ CanReceive({"json_other", "text_other"})
    /\ FreshLocals
    /\ fin_sent' = <<>>
    /\ fin_calls' = <<>>
    /\ fin_status' = "ignored"
    /\ fin_error' = "none"
    /\ fin_gate' = "none"
    /\ fin_outcome' = NoOutcome
    /\ audio_chunks' = <<>>
    /\ UNCHANGED <<pc, device_id, profile_vars, recording,
                   peer_gone, client_state, n_device_msgs, fn_input,
                   process_vars>>

\* a JSON object of another type, and a text frame that is neither AUDIO_END
\* nor starts with '{'
ReceiveIgnored ==
    /\ CanReceive({"json_other", "text_other"})
    /\ FreshLocals
    /\ fin_sent' = <<>>
    /\ fin_calls' = <<>>
    /\ fin_status' = "ignored"
    /\ fin_error' = "none"
    /\ fin_gate' = "none"
    /\ fin_outcome' = NoOutcome
    /\ UNCHANGED <<pc, device_id, profile_vars, audio_chunks, recording,
                   peer_gone, client_state, n_device_msgs, fn_input,
                   process_vars>>

\* a handler that drops a frame it cannot parse and goes on
ReceiveBadJson_keeps_listening ==
    /\ CanReceive({"bad_json"})
    /\ pc' = pc
    /\ FreshHandler
    /\ UNCHANGED <<device_id, profile_vars, audio_chunks, recording,
                   peer_gone, client_state, n_device_msgs,
                   fn_input, process_vars>>

\* a text frame that starts with '{' and is not JSON: json.loads raises
ReceiveBadJson ==
    /\ CanReceive({"bad_json"})
    /\ pc' = "closed"
    /\ FreshHandler
    /\ UNCHANGED <<device_id, profile_vars, audio_chunks, recording,
                   peer_gone, client_state, n_device_msgs,
                   fn_input, process_vars>>

\* websocket.receive() returns the disconnect message: it has neither
\* 'bytes' nor 'text', the loop goes round
ReceiveDisconnect ==
    /\ CanReceive({"disconnect"})
    /\ client_state' = "DISCONNECTED"
    /\ FreshHandler
    /\ UNCHANGED <<pc, device_id, profile_vars, audio_chunks, recording,
                   peer_gone, n_device_msgs, fn_input, process_vars>>

\* websocket.receive() after the disconnect message raises RuntimeError
ReceiveAfterDisconnect ==
    /\ pc = "listening"
    /\ client_state = "DISCONNECTED"
    /\ pc' = "closed"
    /\ FreshHandler
    /\ UNCHANGED <<device_id, profile_vars, audio_chunks, recording,
                   device_vars, client_state, fn_input, process_vars>>

-----------------------------------------------------------------------------
(* process_complete_audio *)

\* a reset that forgets the recording flag
ResetUtterance_chunks_only ==
    /\ audio_chunks' = <<>>
    /\ UNCHANGED recording

\* the finally block: reset for the next utterance
ResetUtterance ==
    /\ audio_chunks' = <<>>
    /\ recording' = FALSE

\* process_complete_audio returns to the message loop
ReturnToLoop(err) ==
    /\ ResetUtterance
    /\ pc' = "listening"
    /\ fin_status' = "returned"
    /\ fin_error' = err

\* a guard that tells the device that nothing was heard
ReceiveAudioEndEmpty_notifies ==
    /\ CanReceive({"AUDIO_END"})
    /\ audio_chunks = <<>>
    /\ FreshLocals
    /\ fin_sent' = <<MsgNoWakeWord>>
    /\ fin_calls' = <<>>
    /\ fin_status' = "guard"
    /\ fin_error' = "none"
    /\ fin_gate' = "none"
    /\ fin_outcome' = NoOutcome
    /\ UNCHANGED <<pc, device_id, profile_vars, audio_chunks, recording,
                   peer_gone, client_state, n_device_msgs,
                   fn_input, process_vars>>

\* AUDIO_END with nothing buffered: the guard returns
ReceiveAudioEndEmpty ==
    /\ CanReceive({"AUDIO_END"})
    /\ audio_chunks = <<>>
    /\ FreshLocals
    /\ fin_sent' = <<>>
    /\ fin_calls' = <<>>
    /\ fin_status' = "guard"
    /\ fin_error' = "none"
    /\ fin_gate' = "none"
    /\ fin_outcome' = NoOutcome
    /\ UNCHANGED <<pc, device_id, profile_vars, audio_chunks, recording,
                   peer_gone, client_state, n_device_msgs,
                   fn_input, process_vars>>

\* AUDIO_END with audio buffered: join and decode, outside the try block;
\* a ValueError of np.frombuffer leaves process_complete_audio and is caught
\* by handle_session, which ends
ReceiveAudioEnd ==
    /\ CanReceive({"AUDIO_END"})
    /\ audio_chunks # <<>>
    /\ LET audio_data == join(audio_chunks)
       IN IF frombuffer_raises(audio_data)
          THEN /\ pc' = "closed"
               /\ audio_np' = <<>>
               /\ fin_status' = "raised"
               /\ fin_error' = "decode"
          ELSE /\ pc' = "transcribe"
               /\ audio_np' = frombuffer(audio_data)
               /\ fin_status' = "running"
               /\ fin_error' = "none"
    /\ transcript' = None
    /\ command' = None
    /\ ai_response' = NoText
    /\ audio_bytes' = <<>>
    /\ stream_i' = 0
    /\ fin_sent' = <<>>
    /\ fin_calls' = <<>>
    /\ fin_gate' = "none"
    /\ fin_outcome' = NoOutcome
    /\ UNCHANGED <<device_id, profile_vars, audio_chunks, recording,
                   peer_gone, client_state, n_device_msgs,
                   fn_input, process_vars>>

\* transcribe_audio: the engine's text, or "" when it fails
Transcribe ==
    /\ pc = "transcribe"
    /\ \E t \in SttResults : transcript' = t
    /\ fin_calls' = Append(fin_calls, "STT")
    /\ pc' = "gate"
    /\ UNCHANGED <<device_id, profile_vars, audio_chunks, recording,
                   device_vars, client_state, audio_np, command, ai_response,
                   audio_bytes, stream_i, fin_sent, fin_status, fin_error,
                   fin_gate, fin_outcome, fn_input, process_vars>>

\* a check that lets every transcript through to the wake-word gate
too_short_never(t) == Len(t) < 0

\* not transcript or len(transcript.strip()) < 3
too_short(t) == Len(t) = 0 \/ Len(strip(t)) < MinCommandLen

\* a rejection without its return: after the notice the handler goes on to
\* the end of the response
RejectTranscript_no_return ==
    /\ pc = "gate"
    /\ \/ too_short(transcript) /\ fin_gate' = "none"
       \/ /\ ~too_short(transcript)
          /\ ai_name # None
          /\ ~validate_wake_word(ai_name, transcript)
          /\ fin_gate' = "absent"
    /\ \E o \in SendOutcomes :
          IF o = "ok"
          THEN /\ fin_sent' = Append(fin_sent, MsgNoWakeWord)
               /\ pc' = "stream"
               /\ UNCHANGED <<audio_chunks, recording, fin_status, fin_error>>
          ELSE UNCHANGED fin_sent /\ ReturnToLoop("send")
    /\ UNCHANGED <<device_id, profile_vars, device_vars, client_state,
                   local_vars, fin_calls, fin_outcome, fn_input, process_vars>>

\* the two early returns: send no_wake_word, reset, return
RejectTranscript ==
    /\ pc = "gate"
    /\ \/ too_short(transcript) /\ fin_gate' = "none"
       \/ /\ ~too_short(transcript)
          /\ ai_name # None
          /\ ~validate_wake_word(ai_name, transcript)
          /\ fin_gate' = "absent"
    /\ \E o \in SendOutcomes :
          IF o = "ok"
          THEN fin_sent' = Append(fin_sent, MsgNoWakeWord) /\ ReturnToLoop("none")
          ELSE UNCHANGED fin_sent /\ ReturnToLoop("send")
    /\ UNCHANGED <<device_id, profile_vars, device_vars, client_state,
                   local_vars, fin_calls, fin_outcome, fn_input, process_vars>>

\* self.ai_name is None: self.ai_name.lower() raises AttributeError, which
\* the except block logs
GateError ==
    /\ pc = "gate"
    /\ ~too_short(transcript)
    /\ ai_name = None
    /\ ReturnToLoop("name")
    /\ UNCHANGED <<device_id, profile_vars, device_vars, client_state,
                   local_vars, fin_sent, fin_calls, fin_gate, fin_outcome,
                   fn_input, process_vars>>

\* the wake word is present: extract the command
PassGate ==
    /\ pc = "gate"
    /\ ~too_short(transcript)
    /\ ai_name # None
    /\ validate_wake_word(ai_name, transcript)
    /\ fin_gate' = "present"
    /\ command' = extract_command(ai_name, transcript)
    /\ pc' = "generate"
    /\ UNCHANGED <<device_id, profile_vars, audio_chunks, recording,
                   device_vars, client_state, audio_np, transcript,
                   ai_response, audio_bytes, stream_i, fin_sent, fin_calls,
                   fin_status, fin_error, fin_outcome, fn_input, process_vars>>

\* a step that asks the LLM a second time when the first request failed
Generate_retries ==
    /\ pc = "generate"
    /\ \E o \in LlmOutcomes :
          /\ ai_response' = generate_response(o)
          /\ fin_outcome' = [fin_outcome EXCEPT !.llm = o]
    /\ fin_calls' = IF ai_response' = ReplyOk THEN Append(fin_calls, "LLM")
                    ELSE fin_calls \o <<"LLM", "LLM">>
    /\ pc' = "tts"
    /\ UNCHANGED <<device_id, profile_vars, audio_chunks, recording,
                   device_vars, client_state, audio_np, transcript, command,
                   audio_bytes, stream_i, fin_sent, fin_status, fin_error,
                   fin_gate, fn_input, process_vars>>

\* generate_response: the reply of the model or a fallback, never raises
Generate ==
    /\ pc = "generate"
    /\ \E o \in LlmOutcomes :
          /\ ai_response' = generate_response(o)
          /\ fin_outcome' = [fin_outcome EXCEPT !.llm = o]
    /\ fin_calls' = Append(fin_calls, "LLM")
    /\ pc' = "tts"
    /\ UNCHANGED <<device_id, profile_vars, audio_chunks, recording,
                   device_vars, client_state, audio_np, transcript, command,
                   audio_bytes, stream_i, fin_sent, fin_status, fin_error,
                   fin_gate, fn_input, process_vars>>

\* a lookup of the speaker without a default
speaker_no_default == DictGet(voice_config, "speaker", "None")

\* speaker = self.voice_config.get('speaker', 'p297'), the speaker argument
\* of tts.tts_to_file
speaker == DictGet(voice_config, "speaker", "p297")

\* generate_tts: the synthesized bytes, or b'' when it fails
Synthesize ==
    /\ pc = "tts"
    /\ \E o \in TtsOutcomes, a \in TtsResults :
          /\ audio_bytes' = generate_tts(o, a)
          /\ fin_outcome' = [fin_outcome EXCEPT !.tts = o]
    /\ fin_calls' = Append(fin_calls, "TTS")
    /\ stream_i' = 0
    /\ pc' = "stream"
    /\ UNCHANGED <<device_id, profile_vars, audio_chunks, recording,
                   device_vars, client_state, audio_np, transcript, command,
                   ai_response, fin_sent, fin_status, fin_error, fin_gate,
                   fn_input, process_vars>>

\* a slice that is one byte short
chunk_at_short(bytes, i) ==
    SubSeq(bytes, i + 1, IF i + chunk_size < Len(bytes) THEN i + chunk_size - 1
                         ELSE Len(bytes))

\* audio_bytes[i:i + chunk_size], i counted from 0
chunk_at(bytes, i) ==
    SubSeq(bytes, i + 1, IF i + chunk_size < Len(bytes) THEN i + chunk_size
                         ELSE Len(bytes))

\* a loop that stops before a final partial chunk
in_range_full_chunks(i, n) == i + chunk_size <= n

\* i in range(0, len(audio_bytes), chunk_size), for i a multiple of chunk_size
in_range(i, n) == i < n

\* an iteration that waits until the device can take the chunk
StreamChunk_waits_for_device ==
    /\ pc = "stream"
    /\ in_range(stream_i, Len(audio_bytes))
    /\ ~peer_gone
    /\ \E o \in SendOutcomes :
          IF o = "ok"
          THEN /\ fin_sent' = Append(fin_sent, MsgBytes(chunk_at(audio_bytes, stream_i)))
               /\ stream_i' = stream_i + chunk_size
               /\ UNCHANGED <<pc, audio_chunks, recording, fin_status, fin_error>>
          ELSE /\ UNCHANGED <<fin_sent, stream_i>>
               /\ ReturnToLoop("send")
    /\ UNCHANGED <<device_id, profile_vars, device_vars, client_state,
                   audio_np, transcript, command, ai_response, audio_bytes,
                   fin_calls, fin_gate, fin_outcome, fn_input, process_vars>>

\* one iteration of the loop of stream_audio_to_device
StreamChunk ==
    /\ pc = "stream"
    /\ in_range(stream_i, Len(audio_bytes))
    /\ \E o \in SendOutcomes :
          IF o = "ok"
          THEN /\ fin_sent' = Append(fin_sent, MsgBytes(chunk_at(audio_bytes, stream_i)))
               /\ stream_i' = stream_i + chunk_size
               /\ UNCHANGED <<pc, audio_chunks, recording, fin_status, fin_error>>
          ELSE /\ UNCHANGED <<fin_sent, stream_i>>
               /\ ReturnToLoop("send")
    /\ UNCHANGED <<device_id, profile_vars, device_vars, client_state,
                   audio_np, transcript, command, ai_response, audio_bytes,
                   fin_calls, fin_gate, fin_outcome, fn_input, process_vars>>

\* the loop is over: signal completion, then the finally block
SendAudioEnd ==
    /\ pc = "stream"
    /\ ~in_range(stream_i, Len(audio_bytes))
    /\ \E o \in SendOutcomes :
          IF o = "ok"
          THEN fin_sent' = Append(fin_sent, MsgAudioEnd) /\ ReturnToLoop("none")
          ELSE UNCHANGED fin_sent /\ ReturnToLoop("send")
    /\ UNCHANGED <<device_id, profile_vars, device_vars, client_state,
                   local_vars, fin_calls, fin_gate, fin_outcome,
                   fn_input, process_vars>>

Next ==
    \/ DeviceSend
    \/ DeviceDisconnect
    \/ Accept
    \/ ReceiveBytes
    \/ ReceiveHello
    \/ ReceiveIgnored
    \/ ReceiveBadJson
    \/ ReceiveDisconnect
    \/ ReceiveAfterDisconnect
    \/ ReceiveAudioEndEmpty
    \/ ReceiveAudioEnd
    \/ Transcribe
    \/ RejectTranscript
    \/ GateError
    \/ PassGate
    \/ Generate
    \/ Synthesize
    \/ StreamChunk
    \/ SendAudioEnd

Spec == Init /\ [][Next]_vars

TypeOK ==
    /\ pc \in {"accept", "listening", "transcribe", "gate", "generate", "tts",
               "stream", "closed"}
    /\ client_state \in {"CONNECTING", "CONNECTED", "DISCONNECTED"}
    /\ fin_status \in {"idle", "ignored", "running", "guard", "returned",
                      "raised"}
    /\ fin_error \in {"none", "db", "decode", "name", "send"}
    /\ fin_outcome.llm \in LlmOutcomes \cup {"none"}
    /\ fin_outcome.tts \in TtsOutcomes \cup {"none"}
    /\ ai_response \in LlmResults \cup {NoText}
    /\ fin_gate \in {"none", "absent", "present"}
    /\ n_device_msgs \in 0..MaxDeviceMsgs
    /\ recording \in BOOLEAN
    /\ Len(inbox) <= MaxInbox + 1

-----------------------------------------------------------------------------
(* The wake-word gate on its own: validate_wake_word and extract_command    *)
(* applied to transcripts assembled from pieces of text and wake phrases.   *)

Ilk == <<DotlessI, "l", "k">>

FnNames == {Frank, Ilk}

TextPieces ==
    {<<"x">>,
     <<" ", "a", " ", "b", " ">>,
     <<" ", "s", "t", "a", "r", "t", " ", "b", "r", "e", "w", "i", "n", "g">>}

Greetings == {"none", "hey", "hi", "hello"}

\* how the speech-to-text engine cases the transcript: as written (text in
\* lower case, the name as stored), all lower case, all upper case
Casings == {"asis", "lower", "upper"}

\* a piece is some text or a wake phrase: the name alone or after a greeting
Pieces ==
    [kind : {"text"}, s : TextPieces, greet : {"none"}]
    \cup [kind : {"wake"}, s : {<<>>}, greet : Greetings]

GreetStr(g) ==
    CASE g = "hey" -> Hey
      [] g = "hi" -> Hi
      [] g = "hello" -> Hello
      [] OTHER -> <<>>

ApplyCasing(c, s) ==
    CASE c = "lower" -> lower(s)
      [] c = "upper" -> upper(s)
      [] OTHER -> s

\* the characters of one piece, for assistant name `name`
Render(piece, name) ==
    IF piece.kind = "text" THEN piece.s
    ELSE GreetStr(piece.greet) \o name

RECURSIVE Flatten(_, _)
Flatten(parts, name) ==
    IF parts = <<>> THEN <<>>
    ELSE Render(Head(parts), name) \o Flatten(Tail(parts), name)

PartSeqs == UNION {[1..n -> Pieces] : n \in 1..MaxParts}

FnInputs == [casing : Casings, parts : PartSeqs]

InitFn ==
    /\ pc = "fn_start"
    /\ ai_name \in FnNames
    /\ fn_input \in FnInputs
    /\ transcript = ApplyCasing(fn_input.casing, Flatten(fn_input.parts, ai_name))
    /\ device_id = "dev_frank"
    /\ dna_parameters = NoneDict
    /\ voice_config = NoneDict
    /\ narrative_context = None
    /\ audio_chunks = <<>>
    /\ recording = FALSE
    /\ inbox = <<>>
    /\ peer_gone = FALSE
    /\ client_state = "CONNECTED"
    /\ n_device_msgs = 0
    /\ audio_np = <<>>
    /\ command = None
    /\ ai_response = NoText
    /\ audio_bytes = <<>>
    /\ stream_i = 0
    /\ fin_sent = <<>>
    /\ fin_calls = <<>>
    /\ fin_status = "idle"
    /\ fin_error = "none"
    /\ fin_gate = "none"
    /\ fin_outcome = NoOutcome
    /\ ProcessIdle

\* validate_wake_word(transcript)
FnValidate ==
    /\ pc = "fn_start"
    /\ fin_gate' = IF validate_wake_word(ai_name, transcript) THEN "present"
                   ELSE "absent"
    /\ pc' = "fn_validated"
    /\ UNCHANGED <<device_id, profile_vars, audio_chunks, recording,
                   device_vars, client_state, local_vars, fin_sent, fin_calls,
                   fin_status, fin_error, fin_outcome, fn_input, process_vars>>

\* extract_command(transcript), called once the gate has reported present
FnExtract ==
    /\ pc = "fn_validated"
    /\ fin_gate = "present"
    /\ command' = extract_command(ai_name, transcript)
    /\ pc' = "fn_extracted"
    /\ UNCHANGED <<device_id, profile_vars, audio_chunks, recording,
                   device_vars, client_state, audio_np, transcript,
                   ai_response, audio_bytes, stream_i, fin_vars,
                   fn_input, process_vars>>

NextFn == FnValidate \/ FnExtract

SpecFn == InitFn /\ [][NextFn]_vars

-----------------------------------------------------------------------------
(* Properties of the session *)

CeilDiv(a, b) == (a + b - 1) \div b

Last(s) == s[Len(s)]

\* the binary frames among the messages of the current finalization
BinaryFrames == SelectSeq(fin_sent, LAMBDA m : m.type = "bytes")

RECURSIVE ConcatData(_)
ConcatData(frames) ==
    IF frames = <<>> THEN <<>> ELSE Head(frames).data \o ConcatData(Tail(frames))

Finished == fin_status = "returned"

\* no send of the current finalization raised
SendsOk == fin_error # "send"

\* C1: once process_complete_audio has returned, by whatever path (reply
\* streamed, no_wake_word, error caught by the except block), the buffer is
\* empty and recording is false; a finalization that raised out of
\* process_complete_audio has closed the session, so no fragment follows it.
C1_ResetInvariant ==
    /\ Finished => audio_chunks = <<>> /\ recording = FALSE
    /\ fin_status = "raised" => pc = "closed"

\* a finalization that failed inside the try block has returned
C1_Witness == Finished /\ fin_error = "name" /\ fin_calls = <<"STT">>

\* C2: the last outbound message of every finalization that found audio in
\* the buffer is a no_wake_word notice or an audio_end marker, also when a
\* pipeline step or a send raised.
C2_NeverSilent ==
    fin_status \in {"returned", "raised"} =>
        /\ fin_sent # <<>>
        /\ Last(fin_sent).type \in {"no_wake_word", "audio_end"}

\* C3: a failure raised at any step of a finalization, decoding included,
\* never closes the session: it is back in the listening loop.
C3_FailureKeepsSession ==
    (fin_status \in {"returned", "raised"} /\ fin_error # "none") =>
        pc = "listening"

\* C4: a finalization that passed the wake gate sends binary frames only,
\* at most ceil(L/1024) of them, then the audio_end marker and nothing after
\* it; when it has returned and no send raised, it has sent exactly
\* ceil(L/1024) binary frames followed by exactly one audio_end.
C4_StreamTermination ==
    fin_gate = "present" =>
        LET n == CeilDiv(Len(audio_bytes), 1024)
        IN /\ Len(BinaryFrames) <= n
           /\ \A k \in 1..Len(fin_sent) :
                 \/ fin_sent[k].type = "bytes"
                 \/ /\ fin_sent[k] = MsgAudioEnd
                    /\ k = Len(fin_sent)
                    /\ k = n + 1
           /\ (Finished /\ SendsOk) =>
                 /\ Len(fin_sent) = n + 1
                 /\ Len(BinaryFrames) = n
                 /\ Last(fin_sent) = MsgAudioEnd

\* a reply of more than two chunks has been streamed and terminated
C4_Witness ==
    /\ Finished /\ SendsOk /\ fin_gate = "present"
    /\ Len(audio_bytes) > 2 * 1024
    /\ Len(fin_sent) = 4

\* C5: the binary frames sent so far, concatenated in send order, are the
\* first bytes of the synthesized audio, and all of it once the finalization
\* has returned without a failed send; every frame but the last is 1024
\* bytes, the last is 1..1024 bytes (2500 bytes: 1024, 1024, 452).
C5_ChunkingLossless ==
    fin_gate = "present" =>
        LET frames == BinaryFrames
            sent == ConcatData(frames)
        IN /\ Len(sent) <= Len(audio_bytes)
           /\ sent = SubSeq(audio_bytes, 1, Len(sent))
           /\ \A k \in 1..Len(frames) :
                 /\ Len(frames[k].data) \in 1..1024
                 /\ Len(frames[k].data) < 1024 =>
                       /\ k = Len(frames)
                       /\ Len(sent) = Len(audio_bytes)
           /\ (Finished /\ SendsOk) => sent = audio_bytes
           /\ (Finished /\ SendsOk /\ Len(audio_bytes) = 2500) =>
                 [k \in 1..Len(frames) |-> Len(frames[k].data)] = <<1024, 1024, 452>>

\* a reply with a partial last chunk has been streamed in three frames
C5_Witness ==
    /\ Finished /\ SendsOk /\ fin_gate = "present"
    /\ Len(BinaryFrames) = 3
    /\ Len(BinaryFrames[3].data) \in 1..1023
    /\ ConcatData(BinaryFrames) = audio_bytes

\* C6: a transcript that is empty (also the result of a failed transcription)
\* or shorter than 3 characters after trimming ends the finalization with
\* exactly one no_wake_word (unless that send raised), without an LLM or TTS
\* call, a binary frame or an audio_end, and with the buffer cleared.
C6_ShortTranscriptRejected ==
    (transcript # None /\ Len(strip(transcript)) < 3 /\ pc # "gate") =>
        /\ Finished
        /\ fin_calls = <<"STT">>
        /\ fin_sent \in {<<>>, <<MsgNoWakeWord>>}
        /\ SendsOk => fin_sent = <<MsgNoWakeWord>>
        /\ audio_chunks = <<>>

\* a failed or empty transcription has been answered with no_wake_word
C6_Witness ==
    /\ Finished /\ transcript = T_empty
    /\ fin_sent = <<MsgNoWakeWord>> /\ fin_calls = <<"STT">>

\* C7: a transcript of 3 or more characters that does not contain the
\* assistant name ends the finalization with exactly one no_wake_word
\* (unless that send raised) and no LLM or TTS call, binary frame or
\* audio_end; the LLM is called only for a transcript that contains the name.
C7_WakeWordGating ==
    /\ ( /\ transcript # None /\ Len(strip(transcript)) >= 3 /\ pc # "gate"
         /\ ai_name # None
         /\ ~Contains(lower(transcript), lower(ai_name)) ) =>
            /\ Finished
            /\ fin_calls = <<"STT">>
            /\ fin_sent \in {<<>>, <<MsgNoWakeWord>>}
            /\ SendsOk => fin_sent = <<MsgNoWakeWord>>
    /\ (\E k \in 1..Len(fin_calls) : fin_calls[k] = "LLM") =>
            /\ fin_gate = "present"
            /\ ai_name # None
            /\ Contains(lower(transcript), lower(ai_name))

\* "what's the weather" was rejected by the gate of a session named Frank
C7_Witness ==
    /\ Finished /\ transcript = T_weather /\ ai_name = Frank
    /\ fin_gate = "absent" /\ fin_sent = <<MsgNoWakeWord>>

-----------------------------------------------------------------------------
(* Properties of the wake-word gate *)

FnParts == fn_input.parts

HasWakePiece == \E k \in 1..Len(FnParts) : FnParts[k].kind = "wake"

WakePieceCount == Cardinality({k \in 1..Len(FnParts) : FnParts[k].kind = "wake"})

Validated == pc \in {"fn_validated", "fn_extracted"}

Extracted == pc = "fn_extracted"

\* every character of s comes back from upper case as str.lower leaves it
CaseStable(s) ==
    \A k \in 1..Len(s) : LowerChar(UpperChar(s[k])) = LowerChar(s[k])

\* what the transcript holds besides its wake phrases, lower-cased
OtherText ==
    lower(ApplyCasing(fn_input.casing,
                      Flatten(SelectSeq(FnParts, LAMBDA q : q.kind = "text"), ai_name)))

NonSpaceCount(s) == Cardinality({k \in 1..Len(s) : ~IsSpace(s[k])})

Floor3(s) == IF Len(s) < 3 THEN <<"y", "e", "s", "?">> ELSE s

StartBrewing == <<"s", "t", "a", "r", "t", " ", "b", "r", "e", "w", "i", "n", "g">>

\* the longest of "hello N", "hey N", "hi N", N that occurs in t
LongestPattern(t, name) ==
    LET n == lower(name)
    IN CASE Contains(t, Hello \o n) -> Hello \o n
         [] Contains(t, Hey \o n) -> Hey \o n
         [] Contains(t, Hi \o n) -> Hi \o n
         [] OTHER -> n

\* t without the first occurrence of p (t contains p)
WithoutFirst(t, p) ==
    LET k == CHOOSE j \in 0..(Len(t) - Len(p)) :
                 /\ SubSeq(t, j + 1, j + Len(p)) = p
                 /\ \A i \in 0..(j - 1) : SubSeq(t, i + 1, i + Len(p)) # p
    IN SubSeq(t, 1, k) \o SubSeq(t, k + Len(p) + 1, Len(t))

FirstOccurrenceCommand ==
    Floor3(strip(WithoutFirst(lower(transcript),
                              LongestPattern(lower(transcript), ai_name))))

\* C8 as stated: whatever the name and the casing of the transcript, a
\* transcript that holds N, "hey N", "hi N" or "hello N" opens the gate.
C8_AnyNameAnyCasing ==
    (Validated /\ HasWakePiece) => fin_gate = "present"

\* C8 amended: for a name whose characters all come back from upper case
\* under str.lower (every ASCII name), a transcript that holds N, "hey N",
\* "hi N" or "hello N" in any casing, anywhere, opens the gate, whatever the
\* casing of the stored name and of the rest of the transcript.
C8_CaseInsensitive ==
    (Validated /\ HasWakePiece /\ CaseStable(ai_name)) => fin_gate = "present"

\* an upper-case transcript with the wake phrase between other text opened
\* the gate of the session named "Frank"
C8_Witness ==
    /\ Validated /\ fin_gate = "present"
    /\ ai_name = Frank /\ fn_input.casing = "upper"
    /\ Len(FnParts) = 3
    /\ FnParts[1].kind = "text" /\ FnParts[2].kind = "wake" /\ FnParts[3].kind = "text"

\* C9 as stated: fewer than 3 non-whitespace characters left after the wake
\* patterns are removed yield "yes?".
C9_NonWhitespaceFloor ==
    (Extracted /\ NonSpaceCount(OtherText) < 3) => command = Filler

\* C9 amended: when what is left after removing the wake patterns is, once
\* trimmed, shorter than 3 characters (inner whitespace counted), the command
\* is "yes?"; a residue such as "a b" is 3 characters long and is returned
\* as it is.
C9_TrimmedLengthFloor ==
    Extracted =>
        /\ Len(strip(OtherText)) < 3 => command = Filler
        /\ strip(OtherText) = <<"a", " ", "b">> => command = <<"a", " ", "b">>

\* a one-character residue was replaced by the filler
C9_Witness ==
    /\ Extracted /\ strip(OtherText) = <<"x">> /\ command = Filler

\* C10 as stated: the command is the transcript without the first occurrence
\* of the longest matching wake pattern; later occurrences stay.
C10_FirstOccurrenceOnly ==
    Extracted => command = FirstOccurrenceCommand

\* C10 amended: extract_command lower-cases the transcript and removes every
\* occurrence of each wake pattern, later ones included: of a transcript made
\* of wake phrases and other text, the other text is left, trimmed; with one
\* wake phrase that is the transcript without the first occurrence of the
\* longest matching pattern ("hey frank start brewing": "start brewing").
C10_EveryOccurrenceRemoved ==
    Extracted =>
        /\ Len(strip(OtherText)) >= 3 => command = strip(OtherText)
        /\ WakePieceCount = 1 => command = FirstOccurrenceCommand
        /\ (transcript = T_brew /\ ai_name = Frank) => command = StartBrewing

\* a transcript with the name before and after the text lost both
C10_Witness ==
    /\ Extracted /\ Len(FnParts) = 3
    /\ FnParts[1].kind = "wake" /\ FnParts[3].kind = "wake"
    /\ FnParts[1].greet = "none" /\ FnParts[3].greet = "none"
    /\ command = StartBrewing

-----------------------------------------------------------------------------
(* Degradation of the LLM and TTS steps *)

LlmFailed == fin_outcome.llm \notin {"none", "ok"}

\* the finalization went on through synthesis and streaming to the marker
CompletedWithReply ==
    /\ fin_calls = <<"STT", "LLM", "TTS">>
    /\ Last(fin_sent) = MsgAudioEnd
    /\ ConcatData(BinaryFrames) = audio_bytes

\* C11: whenever the LLM call fails (timeout, connection error, non-200
\* status, malformed 200 body), generate_response does not raise and returns
\* one and the same fallback string whatever the failure, and the
\* finalization still calls TTS, streams the result and sends audio_end.
C11_SingleFallback ==
    LlmFailed =>
        /\ ai_response = "My brain's offline. Try again?"
        /\ pc \in {"tts", "stream", "listening"}
        /\ (Finished /\ SendsOk) => CompletedWithReply

\* C11, amended: a failed LLM call never raises and returns a fixed string
\* that depends on the failure only by its kind: "Sorry, I'm having trouble
\* thinking right now." for a non-200 status, "My brain's offline. Try
\* again?" for an exception (timeout, connection error, malformed 200 body);
\* the finalization then calls TTS, streams the result and sends audio_end
\* (unless a send raised).
C11_FallbackPerFailure ==
    LlmFailed =>
        /\ ai_response = IF fin_outcome.llm = "status"
                         THEN "Sorry, I'm having trouble thinking right now."
                         ELSE "My brain's offline. Try again?"
        /\ pc \in {"tts", "stream", "listening"}
        /\ pc # "tts" => SubSeq(fin_calls, 1, 3) = <<"STT", "LLM", "TTS">>
        /\ (Finished /\ SendsOk) => CompletedWithReply

\* a finalization whose LLM call answered with a non-200 status has streamed
\* a reply and the marker
C11_Witness ==
    /\ Finished /\ SendsOk
    /\ fin_outcome.llm = "status"
    /\ ai_response = FallbackStatus
    /\ CompletedWithReply
    /\ Len(BinaryFrames) > 0

\* C12: when synthesis fails, generate_tts does not raise and returns zero
\* bytes; the finalization sends no binary frame and then exactly one
\* audio_end marker (nothing at all when that send raises), and the session
\* is back in the listening loop.
C12_TtsFailureDegrades ==
    fin_outcome.tts = "fail" =>
        /\ audio_bytes = <<>>
        /\ BinaryFrames = <<>>
        /\ pc \in {"stream", "listening"}
        /\ pc = "stream" => fin_sent = <<>>
        /\ Finished => pc = "listening"
        /\ (Finished /\ SendsOk) => fin_sent = <<MsgAudioEnd>>
        /\ (Finished /\ ~SendsOk) => fin_sent = <<>>

\* a finalization whose synthesis failed has sent the marker alone and the
\* session listens again
C12_Witness ==
    /\ Finished /\ SendsOk
    /\ fin_outcome.tts = "fail"
    /\ fin_calls = <<"STT", "LLM", "TTS">>
    /\ fin_sent = <<MsgAudioEnd>>
    /\ pc = "listening"

-----------------------------------------------------------------------------
(* Handshake, profile and identity *)

\* the name stored for a device id, "Assistant" when it has no record
ResolvedName(d) ==
    CASE d = "dev_frank" -> <<"F", "r", "a", "n", "k">>
      [] d = "dev_noname" -> None
      [] OTHER -> <<"A", "s", "s", "i", "s", "t", "a", "n", "t">>

\* the step of handle_session from accept to the message loop
HandshakeStep == pc = "accept" /\ pc' = "listening"

\* the step adds no personality_loaded message to the ones already sent
NoNewPersonality ==
    \A k \in 1..Len(fin_sent') :
        fin_sent'[k].type = "personality_loaded" =>
            k <= Len(fin_sent) /\ fin_sent[k] = fin_sent'[k]

\* C13: nothing is sent and no inbound message is processed before the
\* profile is loaded; the step that loads it sends personality_loaded with
\* the resolved assistant name and sleep_enabled true as the first outbound
\* message; no later step sends a personality_loaded message, and the
\* session never goes back to the handshake.
C13_AcceptHandshake ==
    [][/\ pc = "accept" =>
             fin_sent = <<>> /\ inbox = <<>> /\ n_device_msgs = 0
       /\ HandshakeStep =>
             /\ ai_name' = ResolvedName(device_id)
             /\ fin_sent' = <<[type |-> "personality_loaded",
                               ai_name |-> ai_name',
                               sleep_enabled |-> TRUE]>>
             /\ inbox' = inbox
       /\ pc # "accept" => pc' # "accept" /\ NoNewPersonality]_vars

\* the handshake is done: personality_loaded is the one message sent so far
C13_Witness ==
    /\ pc = "listening" /\ fin_status = "idle"
    /\ fin_sent = <<[type |-> "personality_loaded",
                     ai_name |-> <<"F", "r", "a", "n", "k">>,
                     sleep_enabled |-> TRUE]>>
    /\ inbox # <<>>

\* a step that runs load_device_profile: the handshake, or a device_hello
LoadStep ==
    \/ pc = "accept" /\ pc' # "accept"
    \/ /\ pc = "listening" /\ client_state = "CONNECTED"
       /\ inbox # <<>> /\ Head(inbox).kind = "device_hello"
       /\ inbox' = Tail(inbox)

\* the query of load_device_profile raised in this step
QueryFailed == fin_error' = "db"

\* C14: when the database has no record for the session's device_id, a
\* profile load whose query succeeds sets the name "Assistant", no trait
\* parameters, no narrative context and the default voice with speaker
\* p297, and leaves the session in the listening loop; as long as the
\* session is open the profile of a device without record is that default.
C14_DefaultProfile ==
    /\ [](( pc \notin {"accept", "closed"} /\ ~HasRow(device_id)) =>
            /\ ai_name = <<"A", "s", "s", "i", "s", "t", "a", "n", "t">>
            /\ dna_parameters = NoneDict
            /\ narrative_context = None
            /\ DictGet(voice_config, "speaker", "none") = "p297")
    /\ [][(LoadStep /\ ~HasRow(device_id') /\ ~QueryFailed) =>
            /\ pc' = "listening"
            /\ ai_name' = <<"A", "s", "s", "i", "s", "t", "a", "n", "t">>
            /\ dna_parameters' = NoneDict
            /\ narrative_context' = None
            /\ voice_config' = Dict({<<"type", "multi_speaker">>,
                                     <<"model", "tts_models/en/vctk/vits">>,
                                     <<"speaker", "p297">>})]_vars

\* a session of a device without record listens with the default profile
C14_Witness ==
    /\ pc = "listening"
    /\ device_id = "dev_unknown"
    /\ ai_name = Assistant
    /\ dna_parameters = NoneDict
    /\ voice_config = DefaultVoice

\* the step that handles a device_hello message
HelloStep ==
    /\ pc = "listening" /\ client_state = "CONNECTED"
    /\ inbox # <<>> /\ Head(inbox).kind = "device_hello"
    /\ inbox' = Tail(inbox)

\* C15: handling a device_hello that carries device_id D sets the session's
\* device_id to D (a hello without device_id keeps it) and, when the profile
\* query succeeds, loads the profile of D and stays in the listening loop;
\* in an open session the assistant name is the one of the current
\* device_id, and the result of every wake-gate check is the result for
\* that name, whatever identity the session started with.
C15_IdentityUpdate ==
    /\ [][HelloStep =>
             /\ device_id' = IF Head(inbox).device_id = "absent"
                             THEN device_id ELSE Head(inbox).device_id
             /\ ~QueryFailed =>
                   pc' = "listening" /\ ai_name' = ResolvedName(device_id')]_vars
    /\ [](pc \notin {"accept", "closed"} => ai_name = ResolvedName(device_id))
    /\ [](fin_gate # "none" =>
             (fin_gate = "present" <=>
                 Contains(lower(transcript), lower(ResolvedName(device_id)))))

\* the identity was set by a device_hello with a null device_id, and the
\* gate of a later finalization has accepted the default name
C15_Witness ==
    /\ device_id = "None"
    /\ fin_gate = "present"
    /\ transcript = T_bare
    /\ fin_calls # <<>>

\* the four profile fields for the record of a device id, or for its absence
FieldsOfRecord(d) ==
    IF d \in DOMAIN DbRows
    THEN <<DbRows[d].ai_name,
           Dict({<<"anxiety_threshold", DbRows[d].anxiety_threshold>>,
                 <<"service_orientation", DbRows[d].service_orientation>>,
                 <<"resilience", DbRows[d].resilience>>}),
           Dict({}),
           DbRows[d].narrative_context>>
    ELSE <<Assistant, NoneDict, DefaultVoice, None>>

\* C16: after every profile load whose query succeeded, the assistant name,
\* the trait parameters, the voice and the narrative context are those of
\* the database record of the current device_id (the defaults when there is
\* none), whatever was loaded before; a load for the identity already
\* loaded leaves the four fields as they are.
C16_ProfileLoadIdempotent ==
    /\ [][(LoadStep /\ ~QueryFailed) =>
             /\ profile_vars' = FieldsOfRecord(device_id')
             /\ (pc # "accept" /\ device_id' = device_id) =>
                   profile_vars' = profile_vars]_vars
    /\ [](pc \notin {"accept", "closed"} =>
             profile_vars = FieldsOfRecord(device_id))

\* a session that has handled a device_hello with a null device_id holds
\* the default profile and nothing of the profile loaded at accept
C16_Witness ==
    /\ pc = "listening"
    /\ device_id = "None"
    /\ profile_vars = <<Assistant, NoneDict, DefaultVoice, None>>
    /\ fin_status = "idle" /\ n_device_msgs > 0

-----------------------------------------------------------------------------
(* The buffer and the order of handling *)

\* the step that handles a binary frame
BytesStep ==
    /\ pc = "listening" /\ client_state = "CONNECTED"
    /\ inbox # <<>> /\ Head(inbox).kind = "bytes"
    /\ inbox' = Tail(inbox)

\* the step in which a finalization returns through its finally block
ResetStep == fin_status = "running" /\ fin_status' = "returned"

\* C17: the step that handles a binary frame appends its bytes, empty or
\* not, at the end of the buffer and sets recording; a binary frame at the
\* head of the queue of a listening session can always be handled; no other
\* step changes the buffer except the reset of a finalization, which empties
\* it: the buffer is the sequence of the fragments handled since the last
\* reset, in arrival order.
C17_FragmentAccumulation ==
    /\ [][/\ BytesStep =>
                /\ audio_chunks' = Append(audio_chunks, Head(inbox).data)
                /\ recording' = TRUE
          /\ ~BytesStep =>
                \/ audio_chunks' = audio_chunks
                \/ ResetStep /\ audio_chunks' = <<>>]_vars
    /\ []((/\ pc = "listening" /\ client_state = "CONNECTED"
           /\ inbox # <<>> /\ Head(inbox).kind = "bytes") => ENABLED ReceiveBytes)

\* three fragments, one of them empty, are buffered in arrival order
C17_Witness ==
    /\ audio_chunks = <<<<2, 3>>, <<>>, <<1>>>>
    /\ recording = TRUE
    /\ pc = "listening"

FinalizingPcs == {"transcribe", "gate", "generate", "tts", "stream"}

\* q is p with frames added at its end
IsPrefix(p, q) == Len(p) <= Len(q) /\ SubSeq(q, 1, Len(p)) = p

StageStarted ==
    \/ Len(fin_calls') > Len(fin_calls)
    \/ pc = "stream" /\ stream_i' > stream_i

\* C20: once the device has disconnected, in whatever state the session is,
\* a finalization in progress included, no step starts a further pipeline
\* stage (STT, LLM, TTS, streaming of a chunk).
C20_DisconnectStopsProcessing ==
    [][peer_gone => ~StageStarted]_vars

-----------------------------------------------------------------------------
(* The process: one event loop for every session *)

\* the frames of an utterance
UtteranceFrames == {BytesFrame(b) : b \in Fragments} \cup {TextFrame("AUDIO_END")}

\* the device sends a fragment or AUDIO_END
DeviceSpeak ==
    /\ pc \notin {"accept", "closed"}
    /\ ~peer_gone
    /\ Len(inbox) < MaxInbox
    /\ n_device_msgs < MaxDeviceMsgs
    /\ \E m \in UtteranceFrames : inbox' = Append(inbox, m)
    /\ n_device_msgs' = n_device_msgs + 1
    /\ UNCHANGED <<pc, device_id, profile_vars, audio_chunks, recording,
                   peer_gone, client_state, local_vars, fin_vars, fn_input,
                   process_vars>>

\* the event loop can run another coroutine: this session is suspended in
\* receive(), send_bytes(), send_json() or asyncio.sleep(), or it has ended.
\* transcribe_audio, generate_response and generate_tts contain no await:
\* from the return of receive() to the first send the loop runs this session
LoopFree == pc \notin {"transcribe", "gate", "generate", "tts"}

\* the device of another open session sends a frame
OtherSend ==
    /\ pc # "accept"
    /\ ~other_pending
    /\ other_pending' = TRUE
    /\ UNCHANGED <<pc, device_id, profile_vars, audio_chunks, recording,
                   device_vars, client_state, local_vars, fin_vars, fn_input,
                   tts_ljspeech, tts_jenny, threads, n_loaded, http_vars>>

\* websocket.receive() of the other session returns its frame
OtherReceive ==
    /\ other_pending
    /\ LoopFree
    /\ other_pending' = FALSE
    /\ UNCHANGED <<pc, device_id, profile_vars, audio_chunks, recording,
                   device_vars, client_state, local_vars, fin_vars, fn_input,
                   tts_ljspeech, tts_jenny, threads, n_loaded, http_vars>>

NextLoop ==
    \/ DeviceSpeak
    \/ DeviceDisconnect
    \/ Accept
    \/ ReceiveBytes
    \/ ReceiveDisconnect
    \/ ReceiveAfterDisconnect
    \/ ReceiveAudioEndEmpty
    \/ ReceiveAudioEnd
    \/ Transcribe
    \/ RejectTranscript
    \/ GateError
    \/ PassGate
    \/ Generate
    \/ Synthesize
    \/ StreamChunk
    \/ SendAudioEnd
    \/ OtherSend
    \/ OtherReceive

SpecLoop == Init /\ [][NextLoop]_vars

\* C21: while one session is inside an inference call (STT, LLM, TTS), a
\* frame waiting for another open session can still be received and handled.
C21_SessionsIndependent ==
    (other_pending /\ pc \in {"transcribe", "generate", "tts"}) =>
        ENABLED OtherReceive

-----------------------------------------------------------------------------
(* Handlers of the message loop *)

\* the step that takes a frame of one of the given kinds from the queue
TakesFrame(kinds) ==
    /\ pc = "listening" /\ client_state = "CONNECTED"
    /\ inbox # <<>> /\ Head(inbox).kind \in kinds
    /\ inbox' = Tail(inbox)

session_fields == <<device_id, ai_name, dna_parameters, voice_config,
                    narrative_context, audio_chunks, recording>>

\* C22: the step that handles an AUDIO_END while the buffer holds no
\* fragment sends nothing, calls none of STT, LLM and TTS, leaves every
\* session field as it is and keeps the session in the listening loop.
C22_EmptyBufferGuard ==
    [][(TakesFrame({"AUDIO_END"}) /\ audio_chunks = <<>>) =>
          /\ fin_sent' = <<>>
          /\ fin_calls' = <<>>
          /\ session_fields' = session_fields
          /\ pc' = "listening"
          /\ client_state' = client_state]_vars

\* the third frame of the connection was an AUDIO_END handled by the guard
C22_Witness ==
    /\ fin_status = "guard"
    /\ pc = "listening"
    /\ n_device_msgs = 3
    /\ inbox = <<>>
    /\ audio_chunks = <<>>

-----------------------------------------------------------------------------
(* Order and outcomes of a finalization *)

\* C23: the adapter calls of a finalization are a prefix of STT, LLM, TTS,
\* each made at most once, also when the call failed; binary frames and the
\* audio_end marker are sent only after all three, and nothing is sent after
\* the marker.
C23_SequentialStages ==
    /\ IsPrefix(fin_calls, <<"STT", "LLM", "TTS">>)
    /\ fin_outcome.llm # "none" => Len(fin_calls) >= 2
    /\ fin_outcome.tts # "none" => Len(fin_calls) = 3
    /\ \A k \in 1..Len(fin_sent) :
          /\ fin_sent[k].type \in {"bytes", "audio_end"} =>
                fin_calls = <<"STT", "LLM", "TTS">>
          /\ fin_sent[k].type = "audio_end" =>
                /\ k = Len(fin_sent)
                /\ \A j \in 1..(k - 1) : fin_sent[j].type = "bytes"

\* a finalization whose LLM request timed out and whose synthesis failed has
\* called each stage once and ended with the marker
C23_Witness ==
    /\ Finished /\ SendsOk
    /\ fin_outcome = [llm |-> "timeout", tts |-> "fail"]
    /\ fin_calls = <<"STT", "LLM", "TTS">>
    /\ fin_sent = <<MsgAudioEnd>>

\* C24: the step that handles a JSON object whose type is not device_hello,
\* or a text frame that is neither AUDIO_END nor starts with '{', leaves
\* device_id, the profile fields, the buffer and recording as they are,
\* sends nothing, calls no adapter and keeps the session in the loop.
C24_UnrecognizedIgnored ==
    [][TakesFrame({"json_other", "text_other"}) =>
          /\ session_fields' = session_fields
          /\ fin_sent' = <<>>
          /\ fin_calls' = <<>>
          /\ pc' = "listening"
          /\ client_state' = client_state]_vars

\* a frame has been ignored while two fragments were buffered
C24_Witness ==
    /\ fin_status = "ignored"
    /\ pc = "listening"
    /\ audio_chunks = <<<<1>>, <<2, 3>>>>
    /\ recording = TRUE

\* C25: handling a text frame that starts with '{' and is not JSON closes
\* the session; handling the disconnect message changes nothing but the
\* connection state, and the next step of the session closes it; a closed
\* session stays closed, takes no frame from the queue, calls no adapter and
\* sends nothing.
C25_TransportErrorsClose ==
    [][/\ TakesFrame({"bad_json"}) => pc' = "closed"
       /\ TakesFrame({"disconnect"}) =>
             /\ client_state' = "DISCONNECTED"
             /\ session_fields' = session_fields
             /\ fin_sent' = <<>> /\ fin_calls' = <<>>
       /\ (client_state = "DISCONNECTED" /\ pc # "closed") =>
             /\ pc' = "closed"
             /\ inbox' = inbox /\ fin_sent' = <<>> /\ fin_calls' = <<>>
       /\ pc = "closed" =>
             /\ pc' = "closed"
             /\ inbox' = inbox
             /\ fin_sent' = fin_sent
             /\ fin_calls' = fin_calls
             /\ session_fields' = session_fields]_vars

\* the session has closed after a disconnect that found a fragment buffered
C25_Witness ==
    /\ pc = "closed"
    /\ client_state = "DISCONNECTED"
    /\ audio_chunks = <<<<2, 3>>>>
    /\ fin_calls = <<>> /\ fin_sent = <<>>

\* C26: a profile query that fails during the reload triggered by a
\* device_hello does not close the session: it stays in the listening loop.
C26_QueryFailureKeepsSession ==
    [][(HelloStep /\ QueryFailed) => pc' = "listening"]_vars

-----------------------------------------------------------------------------
(* Progress of a finalization *)

\* a step of process_complete_audio after websocket.receive() has returned
FinalizeStep ==
    \/ Transcribe
    \/ RejectTranscript
    \/ GateError
    \/ PassGate
    \/ Generate
    \/ Synthesize
    \/ StreamChunk
    \/ SendAudioEnd

\* one session: the device speaks or goes away, the loop handles the frames
NextFair ==
    \/ DeviceSpeak
    \/ DeviceDisconnect
    \/ Accept
    \/ ReceiveBytes
    \/ ReceiveDisconnect
    \/ ReceiveAfterDisconnect
    \/ ReceiveAudioEndEmpty
    \/ ReceiveAudioEnd
    \/ Transcribe
    \/ RejectTranscript
    \/ GateError
    \/ PassGate
    \/ Generate
    \/ Synthesize
    \/ StreamChunk
    \/ SendAudioEnd

\* every call of a finalization returns or fails, and the event loop resumes
\* the session after each of its awaits
SpecFair == Init /\ [][NextFair]_vars /\ WF_vars(FinalizeStep)

\* C27: when every call of a finalization returns or fails and the session
\* is resumed after each await, a session that is finalizing is eventually
\* back in the listening loop or closed.
C27_FinalizationCompletes ==
    (pc \in FinalizingPcs) ~> (pc \in {"listening", "closed"})

\* a finalization has returned after the three iterations of the streaming
\* loop for a reply of more than two chunks
C27_Witness ==
    /\ Finished
    /\ pc = "listening"
    /\ stream_i >= Len(audio_bytes)
    /\ stream_i = 3 * chunk_size

-----------------------------------------------------------------------------
(* Lazily loaded engines of the process *)

\* the branch of get_tts_model a model name takes
ModelNames == {"vctk", "ljspeech", "jenny", "other"}

LazyModels == {"ljspeech", "jenny"}

\* the global that caches a lazily loaded model
Global(m) == IF m = "ljspeech" THEN tts_ljspeech ELSE tts_jenny

session_state == <<pc, device_id, profile_vars, audio_chunks, recording,
                   device_vars, client_state, local_vars, fin_vars, fn_input,
                   other_pending, http_vars>>

\* a request enters get_tts_model(model_name)
EnterGetTts(t) ==
    /\ threads[t].pc = "idle"
    /\ \E m \in ModelNames :
          threads' = [threads EXCEPT ![t] = [pc |-> "check", model_name |-> m]]
    /\ UNCHANGED <<session_state, tts_ljspeech, tts_jenny, n_loaded>>

\* `if tts_ljspeech is None:` / `if tts_jenny is None:`; the other branches
\* return tts_vctk, which was loaded at import
CheckGlobal(t) ==
    /\ threads[t].pc = "check"
    /\ LET m == threads[t].model_name
       IN IF m \in LazyModels /\ Global(m) = "None"
          THEN threads' = [threads EXCEPT ![t].pc = "construct"]
          ELSE threads' = [threads EXCEPT ![t] =
                               [pc |-> "idle", model_name |-> "-"]]
    /\ UNCHANGED <<session_state, tts_ljspeech, tts_jenny, n_loaded>>

\* TTS(model_name=...) has built an instance; the global is not assigned yet
ConstructTts(t) ==
    /\ threads[t].pc = "construct"
    /\ n_loaded' = [n_loaded EXCEPT ![threads[t].model_name] = @ + 1]
    /\ threads' = [threads EXCEPT ![t].pc = "assign"]
    /\ UNCHANGED <<session_state, tts_ljspeech, tts_jenny>>

\* the assignment to the global, and the return
AssignGlobal(t) ==
    /\ threads[t].pc = "assign"
    /\ IF threads[t].model_name = "ljspeech"
       THEN tts_ljspeech' = "loaded" /\ UNCHANGED tts_jenny
       ELSE tts_jenny' = "loaded" /\ UNCHANGED tts_ljspeech
    /\ threads' = [threads EXCEPT ![t] = [pc |-> "idle", model_name |-> "-"]]
    /\ UNCHANGED <<session_state, n_loaded>>

NextEngines ==
    \/ \E t \in Threads : EnterGetTts(t)
    \/ \E t \in Threads : CheckGlobal(t)
    \/ \E t \in Threads : ConstructTts(t)
    \/ \E t \in Threads : AssignGlobal(t)

SpecEngines == Init /\ [][NextEngines]_vars

EnginesTypeOK ==
    /\ tts_ljspeech \in {"None", "loaded"}
    /\ tts_jenny \in {"None", "loaded"}
    /\ threads \in [Threads -> [pc : {"idle", "check", "construct", "assign"},
                               model_name : ModelNames \cup {"-"}]]
    /\ n_loaded \in [ljspeech : 0..2, jenny : 0..2]

\* C28: a lazily loaded engine is constructed at most once in the life of
\* the process, whatever requests run at the same time.
C28_EnginesLoadedOnce ==
    \A m \in LazyModels : n_loaded[m] <= 1

-----------------------------------------------------------------------------
(* The recording flag *)

\* C29: whenever the session waits for the next message, recording is true
\* exactly when the buffer holds at least one fragment.
C29_RecordingIffBuffered ==
    pc = "listening" => (recording <=> audio_chunks # <<>>)

\* the session waits with a buffer whose only fragment has no byte
C29_Witness ==
    /\ pc = "listening"
    /\ recording
    /\ audio_chunks = <<<<>>>>

-----------------------------------------------------------------------------
(* Outcomes of a finalization *)

SentOfType(ty) == SelectSeq(fin_sent, LAMBDA m : m.type = ty)

\* C30: the messages of one finalization hold at most one no_wake_word and at
\* most one audio_end, never both; binary frames are sent only after the wake
\* gate was passed, and nothing is sent after the audio_end.
C30_ExclusiveOutcomes ==
    /\ Len(SentOfType("no_wake_word")) + Len(SentOfType("audio_end")) <= 1
    /\ BinaryFrames # <<>> => fin_gate = "present"
    /\ \A k \in 1..Len(fin_sent) :
          fin_sent[k].type = "audio_end" => k = Len(fin_sent)

\* a finalization that passed the gate has sent two binary frames and then
\* its audio_end
C30_Witness ==
    /\ Finished
    /\ fin_gate = "present"
    /\ Len(BinaryFrames) = 2
    /\ Last(fin_sent) = MsgAudioEnd

-----------------------------------------------------------------------------
(* The gate as a substring test *)

\* C31: validate_wake_word answers true exactly when the lower-cased name
\* occurs as a contiguous run of characters of the lower-cased transcript,
\* inside a longer word as well; the greeting variants add nothing.
C31_SubstringTest ==
    Validated =>
        (fin_gate = "present" <=> Contains(lower(transcript), lower(ai_name)))

\* the name between two letters, with no greeting, opened the gate
C31_Witness ==
    /\ Validated /\ fin_gate = "present"
    /\ ai_name = Frank
    /\ lower(transcript) = <<"x", "f", "r", "a", "n", "k", "x">>

-----------------------------------------------------------------------------
(* The gate on transcripts whose text can join into the name *)

Fr == <<"f", "r">>

Ank == <<"a", "n", "k">>

\* text that holds no name, but two halves of one
WordPieces ==
    [kind : {"text"}, s : {Fr, Ank}, greet : {"none"}]
    \cup [kind : {"wake"}, s : {<<>>}, greet : Greetings]

WordInputs ==
    [casing : Casings,
     parts : UNION {[1..n -> WordPieces] : n \in 1..MaxParts}]

InitFnWord ==
    /\ pc = "fn_start"
    /\ ai_name \in FnNames
    /\ fn_input \in WordInputs
    /\ transcript = ApplyCasing(fn_input.casing, Flatten(fn_input.parts, ai_name))
    /\ device_id = "dev_frank"
    /\ dna_parameters = NoneDict
    /\ voice_config = NoneDict
    /\ narrative_context = None
    /\ audio_chunks = <<>>
    /\ recording = FALSE
    /\ inbox = <<>>
    /\ peer_gone = FALSE
    /\ client_state = "CONNECTED"
    /\ n_device_msgs = 0
    /\ audio_np = <<>>
    /\ command = None
    /\ ai_response = NoText
    /\ audio_bytes = <<>>
    /\ stream_i = 0
    /\ fin_sent = <<>>
    /\ fin_calls = <<>>
    /\ fin_status = "idle"
    /\ fin_error = "none"
    /\ fin_gate = "none"
    /\ fin_outcome = NoOutcome
    /\ ProcessIdle

SpecFnWord == InitFnWord /\ [][NextFn]_vars

Frfrankank == Fr \o lower(Frank) \o Ank

-----------------------------------------------------------------------------
(* The voice of the reply *)

-----------------------------------------------------------------------------
(* device_hello during an utterance *)

\* C34: the step that handles a device_hello leaves the buffer and the
\* recording flag as they are, sends nothing and calls no stage; the gate of
\* the finalization that follows decides with the name of the identity the
\* session has then, whatever identity the fragments were buffered under.
C34_HelloKeepsUtterance ==
    /\ [][HelloStep =>
             /\ audio_chunks' = audio_chunks
             /\ recording' = recording
             /\ fin_sent' = <<>>
             /\ fin_calls' = <<>>]_vars
    /\ [](fin_gate \in {"present", "absent"} =>
             (fin_gate = "present" <=>
                 validate_wake_word(ResolvedName(device_id), transcript)))

\* a session that has buffered fragments is about to handle a device_hello
\* that changes the assistant name and keeps the fragments
C34_Witness ==
    /\ pc = "listening"
    /\ recording
    /\ ENABLED (/\ ReceiveHello
                /\ pc' = "listening"
                /\ ai_name' # ai_name
                /\ audio_chunks' = audio_chunks
                /\ audio_chunks' # <<>>)

-----------------------------------------------------------------------------
(* The assistant name after a load *)

\* C35: once a profile load has completed the assistant name is a string,
\* and no finalization fails at the wake gate for want of a name.
C35_NameIsString ==
    /\ pc \in {"listening"} \cup FinalizingPcs => ai_name # None
    /\ fin_error # "name"

-----------------------------------------------------------------------------
(* The HTTP layer of main.py: the API-key middleware, three handlers that   *)
(* validate their input, and the command classifier of /api/conversation.   *)
(* A path is the sequence of its segments: "/" is the empty sequence.       *)

P_root == <<>>

P_health == <<"api", "health">>

P_chat == <<"api", "website", "chat">>

P_tts == <<"api", "tts", "generate">>

P_personality == <<"api", "personality", "create">>

P_conversation == <<"api", "conversation">>

P_messages == <<"messages">>

Paths == {P_root, P_health, P_chat, P_tts, P_personality, P_conversation,
          P_messages}

\* request.url.path.startswith("/api/")
StartsWithApi(path) == Len(path) >= 2 /\ path[1] = "api"

\* values of the X-API-Key header; "None" when the request carries none
KeyHeaders == {"None", "secret", "wrong"}

Ph_br == <<"b", "r">>

Ph_ew == <<"e", "w">>

Ph_brew == <<"B", "r", "e", "w">>

Ph_stop == <<"s", "t", "o", "p">>

Ph_hi == <<"h", "i">>

Phrases == {<<>>, Ph_br, Ph_ew, Ph_brew, Ph_stop, Ph_hi}

Requests ==
    [path : Paths, x_api_key : KeyHeaders, text : Phrases,
     description : {<<>>, Ph_hi}]

StopWords ==
    {<<"s", "t", "o", "p">>,
     <<"c", "a", "n", "c", "e", "l">>,
     <<"t", "u", "r", "n", " ", "o", "f", "f">>,
     <<"d", "o", "n", "'", "t">>}

\* a classifier that joins the two texts without the space between them
parse_commands_no_separator(user_input, reply) ==
    LET combined == lower(user_input \o reply)
    IN IF Contains(combined, lower(Ph_brew))
       THEN IF \E stop \in StopWords : Contains(combined, stop)
            THEN <<"stop_brew">>
            ELSE <<"start_brew">>
       ELSE <<>>

\* parse_commands(user_input, ai_response)
parse_commands(user_input, reply) ==
    LET combined == lower(user_input \o <<" ">> \o reply)
    IN IF Contains(combined, lower(Ph_brew))
       THEN IF \E stop \in StopWords : Contains(combined, stop)
            THEN <<"stop_brew">>
            ELSE <<"start_brew">>
       ELSE <<>>

http_rest == <<pc, device_id, profile_vars, audio_chunks, recording,
               device_vars, client_state, local_vars, fin_vars, fn_input,
               other_pending, tts_ljspeech, tts_jenny, threads, n_loaded,
               soven_api_key>>

\* a request arrives
HttpArrive ==
    /\ http_pc \in {"idle", "done"}
    /\ request' \in Requests
    /\ response' = NoResponse
    /\ http_pc' = "middleware"
    /\ UNCHANGED http_rest

\* api_key_middleware
api_key_middleware ==
    /\ http_pc = "middleware"
    /\ IF request.path \in {P_root, P_health, P_chat}
       THEN http_pc' = "handler" /\ UNCHANGED response
       ELSE IF StartsWithApi(request.path)
               /\ request.x_api_key # soven_api_key
            THEN /\ response' = [NoResponse EXCEPT !.status = 403]
                 /\ http_pc' = "done"
            ELSE http_pc' = "handler" /\ UNCHANGED response
    /\ UNCHANGED <<http_rest, request>>

Answer(handler, status, success) ==
    /\ response' = [NoResponse EXCEPT !.status = status, !.handler = handler,
                                      !.success = success]
    /\ http_pc' = "done"
    /\ UNCHANGED <<http_rest, request>>

\* root, health_check, create_message: handlers that take no text to check
plain_handler ==
    /\ http_pc = "handler"
    /\ request.path \in {P_root, P_health, P_messages}
    /\ Answer("plain", 200, "-")

\* generate_speech: HTTPException(400) is raised inside the try and caught
\* by `except Exception`, which raises HTTPException(500)
generate_speech ==
    /\ http_pc = "handler"
    /\ request.path = P_tts
    /\ IF request.text = <<>>
       THEN Answer("generate_speech", 500, "-")
       ELSE \E tts_ok \in BOOLEAN :
               Answer("generate_speech", IF tts_ok THEN 200 ELSE 500, "-")

\* create_personality: the same try / except Exception around the check
create_personality ==
    /\ http_pc = "handler"
    /\ request.path = P_personality
    /\ IF request.text = <<>> \/ request.description = <<>>
       THEN Answer("create_personality", 500, "-")
       ELSE Answer("create_personality", 200, "true")

\* website_chat: the limiter answers 429 before the handler runs; in the
\* handler every exception, the HTTPException(400) for an empty message and
\* the AttributeError of request.user_name included, ends in the returned
\* failure body
website_chat ==
    /\ http_pc = "handler"
    /\ request.path = P_chat
    /\ \E limited \in BOOLEAN :
          IF limited THEN Answer("none", 429, "-")
          ELSE Answer("website_chat", 200, "false")

\* process_conversation: the commands of a reply that was generated
process_conversation ==
    /\ http_pc = "handler"
    /\ request.path = P_conversation
    /\ \E ok \in BOOLEAN, reply \in Phrases :
          IF ok
          THEN /\ response' =
                     [status |-> 200, handler |-> "process_conversation",
                      success |-> "true", ai_response |-> reply,
                      commands |-> parse_commands(request.text, reply)]
               /\ http_pc' = "done"
               /\ UNCHANGED <<http_rest, request>>
          ELSE Answer("process_conversation", 500, "-")

NextHttp ==
    \/ HttpArrive
    \/ api_key_middleware
    \/ plain_handler
    \/ generate_speech
    \/ create_personality
    \/ website_chat
    \/ process_conversation

InitHttp ==
    /\ pc = "accept"
    /\ device_id = "dev_frank"
    /\ ai_name = None
    /\ dna_parameters = NoneDict
    /\ voice_config = NoneDict
    /\ narrative_context = None
    /\ audio_chunks = <<>>
    /\ recording = FALSE
    /\ inbox = <<>>
    /\ peer_gone = FALSE
    /\ client_state = "CONNECTING"
    /\ n_device_msgs = 0
    /\ audio_np = <<>>
    /\ transcript = None
    /\ command = None
    /\ ai_response = NoText
    /\ audio_bytes = <<>>
    /\ stream_i = 0
    /\ fin_sent = <<>>
    /\ fin_calls = <<>>
    /\ fin_status = "idle"
    /\ fin_error = "none"
    /\ fin_gate = "none"
    /\ fin_outcome = NoOutcome
    /\ fn_input = [casing |-> "asis", parts |-> <<>>]
    /\ other_pending = FALSE
    /\ tts_ljspeech = "None"
    /\ tts_jenny = "None"
    /\ threads = [t \in Threads |-> [pc |-> "idle", model_name |-> "-"]]
    /\ n_loaded = [ljspeech |-> 0, jenny |-> 0]
    /\ soven_api_key \in {"None", "secret"}
    /\ HttpIdle

SpecHttp == InitHttp /\ [][NextHttp]_vars

HttpTypeOK ==
    /\ soven_api_key \in {"None", "secret"}
    /\ http_pc \in {"idle", "middleware", "handler", "done"}
    /\ request \in Requests \cup {NoRequest}
    /\ response.status \in {0, 200, 403, 429, 500}

\* a path the gate is meant to protect
Protected(path) == StartsWithApi(path) /\ path \notin {P_health, P_chat}

\* C36: a request to a protected /api/ path without the X-API-Key header, or
\* with a header that differs from the configured key, is answered 403 and
\* reaches no handler, whether or not SOVEN_API_KEY is set.
C36_ApiKeyGate ==
    (/\ http_pc \in {"handler", "done"}
     /\ Protected(request.path)
     /\ request.x_api_key = "None" \/ request.x_api_key # soven_api_key)
        => (http_pc = "done" /\ response.status = 403
            /\ response.handler = "none")

\* the field the handler checks is empty
EmptyInput ==
    CASE request.path = P_tts -> request.text = <<>>
      [] request.path = P_personality ->
             request.text = <<>> \/ request.description = <<>>
      [] request.path = P_chat -> request.text = <<>>
      [] OTHER -> FALSE

\* C37: a request that reaches generate_speech, create_personality or
\* website_chat with the checked field empty is answered with status 400.
C37_ValidationStatus ==
    (/\ http_pc = "done"
     /\ response.handler \in {"generate_speech", "create_personality",
                              "website_chat"}
     /\ EmptyInput)
        => response.status = 400

\* the commands of a response of process_conversation
Classified ==
    /\ http_pc = "done"
    /\ response.handler = "process_conversation"
    /\ response.status = 200

CombinedText == lower(request.text \o <<" ">> \o response.ai_response)

====
